---- MODULE Spec2Model ----
(***************************************************************************)
(* Model of warehouse_invetory_chain.py: the Block / Blockchain ledger     *)
(* engine and the InventoryApp handlers that drive it.                     *)
(*                                                                         *)
(* SHA-256 is modelled as a collision-free digest: a digest carries its    *)
(* preimage (field "pre") so that two digests are equal exactly when the   *)
(* hashed JSON documents are equal, and it carries the value of its first  *)
(* two hex digits (field "prefix", 0 .. HexBase*HexBase-1), computed by a  *)
(* deterministic mixing function of the hashed content.  Python values of  *)
(* different types (int, str, None) are records of one shape, tagged.      *)
(***************************************************************************)
EXTENDS Integers, Sequences, FiniteSets, TLC

\* ---------------------------------------------------------------- bounds
MaxTx == 3           \* transactions accepted over a run (sealed or pending)
SearchDoublings == 5 \* mine_block runs at most 2^5 passes of its loop
MaxStartNonce == 2   \* largest nonce a block is constructed with

\* ------------------------------------------------------ program constants
MINING_DIFFICULTY == 2
HexBase == 16

Difficulties == {0, MINING_DIFFICULTY}

\* datetime.datetime.now() when a block is built: the clock has moved on since
\* the block before, so the reading is the tick after the blocks of chain c.
Now(c) == Len(c) + 1

\* ------------------------------------------------------------ transactions
\* A transaction argument of add_transaction.  kind says what its 'change' is:
\* an int ("int"), a numeric string such as "2" ("numstr"), a non-numeric
\* string ("badstr"), None ("none"), or no 'change' key at all ("missing");
\* n is the number an int or a numeric string stands for.  has_item_id = FALSE
\* models a dict without the 'item_id' key (or an argument that is no dict).
MkTx(item, has, kind, n) ==
    [item_id |-> item, has_item_id |-> has, kind |-> kind, n |-> n]

TxInputs ==
    {MkTx("A", TRUE, "int", 2),
     MkTx("A", TRUE, "int", -1),
     MkTx("", TRUE, "numstr", 1),
     MkTx("A", TRUE, "badstr", 0),
     MkTx("A", TRUE, "none", 0),
     MkTx("A", TRUE, "missing", 0),
     MkTx("", FALSE, "int", 1)}

\* int(x): the integer for an int or a numeric string; raises ValueError for
\* a non-numeric string and TypeError for None.
IntRaises(t) == t.kind \in {"badstr", "none"}
IntOf(t) == t.n

\* ------------------------------------------------------------------ digests
\* previous_hash of the genesis block: the string "0".
GenesisPrevHash == [prefix |-> 0, pre |-> <<>>]

\* Block.transactions: the string "Genesis Block" in the genesis block, the
\* list of pending transactions in every mined block.
GenesisPayload == [type |-> "str", text |-> "Genesis Block", items |-> <<>>]
ListPayload(txs) == [type |-> "list", text |-> "", items |-> txs]

ItemCode(item) ==
    CASE item = "A" -> 3
      [] item = "B" -> 5
      [] item = "" -> 1
      [] OTHER -> 7

KindCode(kind) ==
    CASE kind = "int" -> 0
      [] kind = "numstr" -> 11
      [] OTHER -> 23

RECURSIVE TxsCode(_)
TxsCode(items) ==
    IF items = <<>> THEN 0
    ELSE LET t == items[Len(items)]
         IN  (3 * TxsCode(SubSeq(items, 1, Len(items) - 1))
                + 29 * ItemCode(t.item_id) + 13 * (t.n + 8) + KindCode(t.kind))
               % (HexBase * HexBase)

PayloadCode(p) ==
    IF p.type = "str" THEN (IF p.text = "Genesis Block" THEN 77 ELSE 78)
    ELSE 41 + TxsCode(p.items)

\* The first two hex digits of the digest, as a number.  The content is mixed
\* into x in 0 .. 2 * HexBase - 1; the first digit is x mod HexBase and the
\* second is 0 or 5, so both digits are '0' for one x in 2 * HexBase.
Mix(index, timestamp, transactions, previous_hash, nonce) ==
    LET x == (101 + 53 * index + 89 * timestamp + 7 * PayloadCode(transactions)
                + 11 * previous_hash.prefix + 37 * nonce) % (2 * HexBase)
    IN  (x % HexBase) * HexBase + 5 * (x \div HexBase)

\* Block.calculate_hash: sha256 of the sort_keys JSON document of the five
\* canonical fields (str(timestamp) is one-to-one on datetime values).
calculate_hash(b) ==
    [prefix |-> Mix(b.index, b.timestamp, b.transactions, b.previous_hash, b.nonce),
     pre |-> <<b.index, b.timestamp, b.transactions, b.previous_hash, b.nonce>>]

\* hash.startswith('0' * k), on the two modelled leading digits; the digits
\* beyond them are not all '0'.
StartsWithZeros(h, k) ==
    CASE k = 0 -> TRUE
      [] k = 1 -> h.prefix < HexBase
      [] k = 2 -> h.prefix = 0
      [] OTHER -> FALSE

\* Block.__init__
Block(index, timestamp, transactions, previous_hash, nonce) ==
    LET f == [index |-> index, timestamp |-> timestamp,
              transactions |-> transactions,
              previous_hash |-> previous_hash, nonce |-> nonce]
    IN  [index |-> index, timestamp |-> timestamp,
         transactions |-> transactions, previous_hash |-> previous_hash,
         nonce |-> nonce, hash |-> calculate_hash(f)]

\* A loop body that moves the nonce on by two.
mine_step_by_two(b) ==
    LET n == [b EXCEPT !.nonce = b.nonce + 2]
    IN  [n EXCEPT !.hash = calculate_hash(n)]

\* Block.mine_block, one pass of the loop body: nonce += 1; rehash.
mine_step(b) ==
    LET n == [b EXCEPT !.nonce = b.nonce + 1]
    IN  [n EXCEPT !.hash = calculate_hash(n)]

\* Block.mine_block: "while not self.hash.startswith(target)", run for at most
\* 2^k passes (evaluated by halving, which keeps the evaluation shallow).
RECURSIVE mine_loop(_, _, _)
mine_loop(b, d, k) ==
    IF StartsWithZeros(b.hash, d) THEN b
    ELSE IF k = 0 THEN mine_step(b)
    ELSE LET half == mine_loop(b, d, k - 1)
         IN  mine_loop(half, d, k - 1)

\* A mine_block that returns without searching.
mine_block_no_search(b, d) == b

\* A mine_block that runs the loop body once before it tests the hash.
mine_block_do_while(b, d) == mine_loop(mine_step(b), d, SearchDoublings)

\* Block.mine_block.  2^SearchDoublings = 2 * HexBase passes reach every value
\* Mix can take, so the search always ends inside the cap.
mine_block(b, d) == mine_loop(b, d, SearchDoublings)

\* ------------------------------------------------------------------- state
VARIABLES
    chain,                  \* Blockchain.chain: the list of blocks
    pending_transactions,   \* Blockchain.pending_transactions
    difficulty,             \* Blockchain.difficulty
    chain_file,             \* what the file named Blockchain.chain_file holds
    ret,                    \* the last operation and what it returned / showed
    pc                      \* where a running mine_pending_transactions() stands

vars == <<chain, pending_transactions, difficulty, chain_file, ret, pc>>

EmptyMap == [k \in {} |-> 0]
NoInventory == [none |-> TRUE, map |-> EmptyMap]
\* arg: the transaction an operation was called with (NoArg when it takes none).
NoArg == [item_id |-> "", has_item_id |-> FALSE, kind |-> "missing", n |-> 0]
Result(op, ok, status, index, inv, arg) ==
    [op |-> op, ok |-> ok, status |-> status, index |-> index, inv |-> inv, arg |-> arg]

\* ------------------------------------------------------------- persistence
FileAbsent == [state |-> "absent", data |-> <<>>]

\* pickle.dump(self.chain, f): for every Block of the list, the values of its
\* instance attributes, in the order __init__ assigned them.
pickle_dump(c) ==
    [i \in 1..Len(c) |->
        <<c[i].index, c[i].timestamp, c[i].transactions, c[i].previous_hash,
          c[i].nonce, c[i].hash>>]

\* A loader that rebuilds every block through Block.__init__, which starts
\* from nonce 0 and derives the hash again.
pickle_load_via_init(data) ==
    [i \in 1..Len(data) |->
        Block(data[i][1], data[i][2], data[i][3], data[i][4], 0)]

\* pickle.load(f): every Block gets its attributes back as they were written;
\* Block.__init__ is not run.
pickle_load(data) ==
    [i \in 1..Len(data) |->
        [index |-> data[i][1], timestamp |-> data[i][2],
         transactions |-> data[i][3], previous_hash |-> data[i][4],
         nonce |-> data[i][5], hash |-> data[i][6]]]

FileOf(c) == [state |-> "chain", data |-> pickle_dump(c)]
FileCorrupt == [state |-> "corrupt", data |-> <<>>]

\* Blockchain.save_chain: pickle.dump of the whole chain.  When open() or
\* dump() raises, the error is shown and the file is left as it was (open
\* failed) or truncated (dump failed).
save_chain(c, file, outcome) ==
    CASE outcome = "ok" -> FileOf(c)
      [] outcome = "open_failed" -> file
      [] OTHER -> FileCorrupt

SaveOutcomes == {"ok", "open_failed", "dump_failed"}

\* ------------------------------------------------------------------- chain
\* A genesis block that is built but not sealed.
create_genesis_block_unsealed(d, now) ==
    Block(0, now, GenesisPayload, GenesisPrevHash, 0)

\* Blockchain.create_genesis_block
create_genesis_block(d, now) ==
    mine_block(Block(0, now, GenesisPayload, GenesisPrevHash, 0), d)

\* Blockchain.get_latest_block
get_latest_block(c) == c[Len(c)]

\* Blockchain.add_transaction: the checks before the append.
add_transaction_accepts(t) ==
    /\ t.has_item_id
    /\ t.kind # "missing"
    /\ ~IntRaises(t)

\* A guard that never reports an empty pending list.
NothingToMine_never(pend) == FALSE

\* mine_pending_transactions: "if not self.pending_transactions".
NothingToMine(pend) == pend = <<>>

\* A new block that takes the pending transactions newest first.
new_block_newest_first(c, pend, d, now) ==
    LET latest_block == get_latest_block(c)
        newest_first == [j \in 1..Len(pend) |-> pend[Len(pend) + 1 - j]]
    IN  mine_block(Block(latest_block.index + 1, now, ListPayload(newest_first),
                         latest_block.hash, 0), d)

\* A new block that repeats the index of the latest block.
new_block_same_index(c, pend, d, now) ==
    LET latest_block == get_latest_block(c)
    IN  mine_block(Block(latest_block.index, now, ListPayload(pend),
                         latest_block.hash, 0), d)

\* mine_pending_transactions: the block built from the pending list, sealed.
new_block(c, pend, d, now) ==
    LET latest_block == get_latest_block(c)
    IN  mine_block(Block(latest_block.index + 1, now, ListPayload(pend),
                         latest_block.hash, 0), d)

\* An append that overwrites the latest block.
AppendBlock_overwrite(c, b) == [c EXCEPT ![Len(c)] = b]

\* mine_pending_transactions: self.chain.append(new_block)
AppendBlock(c, b) == Append(c, b)

\* --------------------------------------------------------------- validator
\* Blockchain.is_chain_valid, with the message it prints: the first failing
\* check and the index field of the block it names.
RECURSIVE ScanFrom(_, _, _)
ScanFrom(c, d, i) ==
    IF i > Len(c) THEN [valid |-> TRUE, check |-> "none", index |-> -1]
    ELSE LET current_block == c[i]
             previous_block == c[i - 1]
         IN  IF current_block.hash # calculate_hash(current_block)
               THEN [valid |-> FALSE, check |-> "hash", index |-> current_block.index]
             ELSE IF current_block.previous_hash # previous_block.hash
               THEN [valid |-> FALSE, check |-> "link", index |-> current_block.index]
             ELSE IF ~StartsWithZeros(current_block.hash, d)
               THEN [valid |-> FALSE, check |-> "pow", index |-> current_block.index]
             ELSE ScanFrom(c, d, i + 1)

\* range(1, len(chain)) is positions 2..Len in a 1-based sequence.
ValidationReport(c, d) == ScanFrom(c, d, 2)

is_chain_valid(c, d) == ValidationReport(c, d).valid

\* --------------------------------------------------------------- projector
\* An update that stores the change instead of adding it.
Accumulate_overwrite(inventory, item_id, change) ==
    [k \in DOMAIN inventory \cup {item_id} |->
        IF k = item_id THEN change ELSE inventory[k]]

\* inventory[item_id] = inventory.get(item_id, 0) + change
Accumulate(inventory, item_id, change) ==
    [k \in DOMAIN inventory \cup {item_id} |->
        IF k = item_id
          THEN (IF item_id \in DOMAIN inventory THEN inventory[item_id] ELSE 0) + change
          ELSE inventory[k]]

\* The inner loop of get_inventory over one block's transactions.
RECURSIVE FoldTransactions(_, _, _)
FoldTransactions(inventory, txs, j) ==
    IF j > Len(txs) THEN inventory
    ELSE LET transaction == txs[j]
         IN  IF transaction.has_item_id /\ transaction.kind # "missing"
               THEN FoldTransactions(
                      Accumulate(inventory, transaction.item_id, IntOf(transaction)),
                      txs, j + 1)
               ELSE FoldTransactions(inventory, txs, j + 1)

\* The outer loop of get_inventory: "for block in self.chain[1:]".
RECURSIVE FoldBlocks(_, _, _)
FoldBlocks(inventory, c, i) ==
    IF i > Len(c) THEN inventory
    ELSE LET block_transactions == c[i].transactions
         IN  IF block_transactions.type \in {"list", "dict"}
               THEN FoldBlocks(FoldTransactions(inventory, block_transactions.items, 1),
                               c, i + 1)
               ELSE FoldBlocks(inventory, c, i + 1)

Replay(c) == FoldBlocks(EmptyMap, c, 2)

\* A get_inventory that replays the chain without validating it.
get_inventory_unchecked(c, d) == [none |-> FALSE, map |-> Replay(c)]

\* Blockchain.get_inventory
get_inventory(c, d) ==
    IF ~is_chain_valid(c, d) THEN NoInventory
    ELSE [none |-> FALSE, map |-> Replay(c)]

\* The transactions sealed in blocks 1..N, in chain order.
RECURSIVE SealedFrom(_, _)
SealedFrom(c, i) ==
    IF i > Len(c) THEN <<>> ELSE c[i].transactions.items \o SealedFrom(c, i + 1)

Sealed(c) == SealedFrom(c, 2)

\* The transactions accepted so far and still held: sealed or pending.
Accepted(c, pend) == Len(Sealed(c)) + Len(pend)

\* ----------------------------------------------------- Blockchain operations
\* Blockchain.__init__ when the chain file does not exist yet:
\* create_genesis_block(), then save_chain().
Init ==
    \E d \in Difficulties, outcome \in SaveOutcomes :
        /\ difficulty = d
        /\ chain = <<create_genesis_block(d, Now(<<>>))>>
        /\ pending_transactions = <<>>
        /\ chain_file = save_chain(chain, FileAbsent, outcome)
        /\ ret = Result("construct", TRUE, "ok", -1, NoInventory, NoArg)
        /\ pc = "idle"

\* Blockchain.add_transaction, called with one of the given arguments.
AddTransactionOf(inputs) ==
    \E t \in inputs :
        /\ UNCHANGED <<chain, difficulty, chain_file, pc>>
        /\ IF ~(t.has_item_id /\ t.kind # "missing")
             THEN /\ ret' = Result("add_transaction", FALSE, "invalid_format", -1, NoInventory, t)
                  /\ UNCHANGED pending_transactions
           ELSE IF ~add_transaction_accepts(t)
             THEN /\ ret' = Result("add_transaction", FALSE, "not_a_number", -1, NoInventory, t)
                  /\ UNCHANGED pending_transactions
           ELSE /\ Accepted(chain, pending_transactions) < MaxTx
                /\ pending_transactions' = Append(pending_transactions, t)
                /\ ret' = Result("add_transaction", TRUE, "added", -1, NoInventory, t)

AddTransaction == AddTransactionOf(TxInputs)

\* A mine_pending_transactions that takes the block back when the save fails.
MinePending_rollback ==
    IF NothingToMine(pending_transactions)
      THEN /\ ret' = Result("mine_pending", FALSE, "nothing_to_mine", -1, NoInventory, NoArg)
           /\ UNCHANGED <<chain, pending_transactions, difficulty, chain_file, pc>>
      ELSE \E outcome \in SaveOutcomes :
             /\ chain' = IF outcome = "ok"
                            THEN AppendBlock(chain, new_block(chain, pending_transactions,
                                                              difficulty, Now(chain)))
                          ELSE chain
             /\ pending_transactions' = IF outcome = "ok" THEN <<>> ELSE pending_transactions
             /\ chain_file' = save_chain(chain', chain_file, outcome)
             /\ ret' = Result("mine_pending", outcome = "ok",
                              IF outcome = "ok" THEN "mined" ELSE "save_error",
                              -1, NoInventory, NoArg)
             /\ UNCHANGED <<difficulty, pc>>

\* Blockchain.mine_pending_transactions
MinePending ==
    IF NothingToMine(pending_transactions)
      THEN /\ ret' = Result("mine_pending", FALSE, "nothing_to_mine", -1, NoInventory, NoArg)
           /\ UNCHANGED <<chain, pending_transactions, difficulty, chain_file, pc>>
      ELSE \E outcome \in SaveOutcomes :
             /\ chain' = AppendBlock(chain,
                           new_block(chain, pending_transactions, difficulty, Now(chain)))
             /\ pending_transactions' = <<>>
             /\ chain_file' = save_chain(chain', chain_file, outcome)
             /\ ret' = Result("mine_pending", TRUE,
                              IF outcome = "ok" THEN "mined" ELSE "save_error",
                              -1, NoInventory, NoArg)
             /\ UNCHANGED <<difficulty, pc>>

\* An is_chain_valid that cuts a chain it finds invalid back to its genesis
\* block.
IsChainValid_repairs ==
    LET report == ValidationReport(chain, difficulty)
    IN  /\ ret' = Result("is_chain_valid", report.valid, report.check, report.index,
                         NoInventory, NoArg)
        /\ chain' = IF report.valid THEN chain ELSE <<chain[1]>>
        /\ UNCHANGED <<pending_transactions, difficulty, chain_file, pc>>

\* Blockchain.is_chain_valid
IsChainValid ==
    LET report == ValidationReport(chain, difficulty)
    IN  /\ ret' = Result("is_chain_valid", report.valid, report.check, report.index,
                         NoInventory, NoArg)
        /\ UNCHANGED <<chain, pending_transactions, difficulty, chain_file, pc>>

\* Blockchain.get_inventory
GetInventory ==
    LET inventory == get_inventory(chain, difficulty)
    IN  /\ ret' = Result("get_inventory", ~inventory.none,
                         IF inventory.none THEN "invalid_chain" ELSE "ok", -1, inventory, NoArg)
        /\ UNCHANGED <<chain, pending_transactions, difficulty, chain_file, pc>>

\* --------------------------------------------------- InventoryApp handlers
\* item_id_entry.get().strip().upper()
ItemEntries == {" ", "a", "B"}
StripUpper(text) ==
    CASE text = " " -> ""
      [] text = "a" -> "A"
      [] OTHER -> text

\* quantity_entry.get().strip(): blank, not a number, or the digits of n.
QuantityEntries ==
    {[kind |-> "blank", n |-> 0], [kind |-> "badstr", n |-> 0]}
      \cup {[kind |-> "numstr", n |-> q] : q \in {0, 1, 2}}

\* A stock check that is off by one.
InsufficientStock_off_by_one(current_stock, change) == current_stock + change < -1

\* A stock check that looks at the stock on hand only, not at the removal.
InsufficientStock_on_hand_only(current_stock, change) == current_stock < 0

\* _add_transaction: "if current_stock + change < 0"
InsufficientStock(current_stock, change) == current_stock + change < 0

\* inventory.get(item_id, 0)
StockOf(map, item_id) == IF item_id \in DOMAIN map THEN map[item_id] ELSE 0

\* An _add_transaction that leaves the transaction pending, without mining.
SubmitAdjustment_no_mine(op, item_id, change) ==
    LET current_inventory == get_inventory(chain, difficulty)
        transaction == MkTx(item_id, TRUE, "int", change)
    IN  IF item_id = ""
          THEN /\ ret' = Result(op, FALSE, "no_item_id", -1, NoInventory, NoArg)
               /\ UNCHANGED <<chain, pending_transactions, difficulty, chain_file, pc>>
        ELSE IF change < 0 /\ current_inventory.none
          THEN /\ ret' = Result(op, FALSE, "cannot_validate", -1, NoInventory, transaction)
               /\ UNCHANGED <<chain, pending_transactions, difficulty, chain_file, pc>>
        ELSE IF change < 0
                  /\ InsufficientStock(StockOf(current_inventory.map, item_id), change)
          THEN /\ ret' = Result(op, FALSE, "stock_error", -1, NoInventory, transaction)
               /\ UNCHANGED <<chain, pending_transactions, difficulty, chain_file, pc>>
        ELSE /\ Accepted(chain, pending_transactions) < MaxTx
             /\ pending_transactions' = Append(pending_transactions, transaction)
             /\ ret' = Result(op, TRUE, "pending", -1, current_inventory, transaction)
             /\ UNCHANGED <<chain, difficulty, chain_file, pc>>

\* InventoryApp._add_transaction(item_id, quantity_change), called with an int.
\* A submission that passes the checks is added to the pending list, mined at
\* once, saved, and the display is refreshed from get_inventory().
SubmitAdjustment(op, item_id, change) ==
    LET current_inventory == get_inventory(chain, difficulty)
    IN  IF item_id = ""
          THEN /\ ret' = Result(op, FALSE, "no_item_id", -1, NoInventory, NoArg)
               /\ UNCHANGED <<chain, pending_transactions, difficulty, chain_file, pc>>
        ELSE IF change < 0 /\ current_inventory.none
          THEN /\ ret' = Result(op, FALSE, "cannot_validate", -1, NoInventory,
                                MkTx(item_id, TRUE, "int", change))
               /\ UNCHANGED <<chain, pending_transactions, difficulty, chain_file, pc>>
        ELSE IF change < 0
                  /\ InsufficientStock(StockOf(current_inventory.map, item_id), change)
          THEN /\ ret' = Result(op, FALSE, "stock_error", -1, NoInventory,
                                MkTx(item_id, TRUE, "int", change))
               /\ UNCHANGED <<chain, pending_transactions, difficulty, chain_file, pc>>
        ELSE \E outcome \in SaveOutcomes :
               LET transaction == MkTx(item_id, TRUE, "int", change)
                   pend == Append(pending_transactions, transaction)
               IN  /\ Accepted(chain, pending_transactions) < MaxTx
                   /\ chain' = AppendBlock(chain,
                                 new_block(chain, pend, difficulty, Now(chain)))
                   /\ pending_transactions' = <<>>
                   /\ chain_file' = save_chain(chain', chain_file, outcome)
                   /\ ret' = Result(op, TRUE,
                                    IF outcome = "ok" THEN "mined" ELSE "save_error",
                                    -1, get_inventory(chain', difficulty), transaction)
                   /\ UNCHANGED <<difficulty, pc>>

\* InventoryApp.add_stock
AddStock ==
    \E entry \in ItemEntries, quantity \in QuantityEntries :
        IF quantity.kind # "numstr" \/ quantity.n <= 0
          THEN /\ ret' = Result("add_stock", FALSE, "bad_quantity", -1, NoInventory, NoArg)
               /\ UNCHANGED <<chain, pending_transactions, difficulty, chain_file, pc>>
          ELSE SubmitAdjustment("add_stock", StripUpper(entry), quantity.n)

\* InventoryApp.remove_stock
RemoveStock ==
    \E entry \in ItemEntries, quantity \in QuantityEntries :
        IF quantity.kind # "numstr" \/ quantity.n <= 0
          THEN /\ ret' = Result("remove_stock", FALSE, "bad_quantity", -1, NoInventory, NoArg)
               /\ UNCHANGED <<chain, pending_transactions, difficulty, chain_file, pc>>
          ELSE SubmitAdjustment("remove_stock", StripUpper(entry), -quantity.n)

\* InventoryApp.update_inventory_display (the Refresh button)
UpdateInventoryDisplay ==
    LET inventory == get_inventory(chain, difficulty)
    IN  /\ ret' = Result("refresh", ~inventory.none,
                         IF inventory.none THEN "invalid_chain" ELSE "ok", -1, inventory, NoArg)
        /\ UNCHANGED <<chain, pending_transactions, difficulty, chain_file, pc>>

\* The ledger engine driven through the Blockchain methods.
Next ==
    \/ AddTransaction
    \/ MinePending
    \/ IsChainValid
    \/ GetInventory

Spec == Init /\ [][Next]_vars

\* The program as it runs: the chain driven through the form's buttons only.
NextApp ==
    \/ AddStock
    \/ RemoveStock
    \/ UpdateInventoryDisplay

\* __main__: Blockchain(difficulty=MINING_DIFFICULTY, ...)
InitApp == Init /\ difficulty = MINING_DIFFICULTY

SpecApp == InitApp /\ [][NextApp]_vars

\* ------------------------------------------------------------- tampering
\* Every block is as the program sealed and linked it.
Untampered(c) ==
    /\ \A i \in 1..Len(c) : c[i].hash = calculate_hash(c[i])
    /\ \A i \in 2..Len(c) : c[i].previous_hash = c[i - 1].hash

CanonicalFields == {"index", "timestamp", "transactions", "previous_hash", "nonce"}

\* Block b with one canonical field changed and the stored hash left alone.
TamperedBlock(b, field) ==
    CASE field = "index" -> [b EXCEPT !.index = b.index + 1]
      [] field = "timestamp" -> [b EXCEPT !.timestamp = b.timestamp + 1]
      [] field = "transactions" ->
           IF b.transactions.type = "str"
             THEN [b EXCEPT !.transactions.text = "Genesis Block."]
             ELSE [b EXCEPT !.transactions.items[1].n = b.transactions.items[1].n + 1]
      [] field = "previous_hash" ->
           [b EXCEPT !.previous_hash.prefix = (b.previous_hash.prefix + 1) % (HexBase * HexBase)]
      [] OTHER -> [b EXCEPT !.nonce = b.nonce + 1]

\* Somebody outside the Blockchain methods edits one field of one sealed block
\* of the in-memory chain.
Tamper ==
    \E i \in 1..Len(chain), field \in CanonicalFields :
        /\ Untampered(chain)
        /\ chain' = [chain EXCEPT ![i] = TamperedBlock(chain[i], field)]
        /\ ret' = Result("tamper", TRUE, field, i - 1, NoInventory, NoArg)
        /\ UNCHANGED <<pending_transactions, difficulty, chain_file, pc>>

\* The callers' arguments while the chain is being tampered with: one
\* transaction that is accepted and one that is not.
TamperTxInputs == {MkTx("A", TRUE, "int", 2), MkTx("A", TRUE, "badstr", 0)}

NextTamper ==
    \/ AddTransactionOf(TamperTxInputs)
    \/ MinePending
    \/ IsChainValid
    \/ GetInventory
    \/ Tamper

SpecTamper == Init /\ [][NextTamper]_vars

\* ------------------------------------------ construction from a chain file
\* What construction leaves in self.chain, what it reported, and whether it
\* went on to save_chain().
Constructed(c, status, saves) == [chain |-> c, status |-> status, saves |-> saves]

\* Blockchain.load_chain with difficulty d on a file that exists.  A file
\* that does not unpickle takes the "except Exception" branch; a chain that
\* fails is_chain_valid() is kept, with a warning box.
load_chain(file, d) ==
    LET fresh == <<create_genesis_block(d, Now(<<>>))>>
        loaded == pickle_load(file.data)
    IN  IF file.state = "corrupt" THEN Constructed(fresh, "load_error", TRUE)
        ELSE IF loaded = <<>> THEN Constructed(fresh, "empty_file", TRUE)
        ELSE IF ~is_chain_valid(loaded, d) THEN Constructed(loaded, "load_warning", FALSE)
        ELSE Constructed(loaded, "loaded", FALSE)

\* Blockchain.__init__ with difficulty d, whatever the chain file holds.
construct(file, d) ==
    IF file.state # "absent" THEN load_chain(file, d)
    ELSE Constructed(<<create_genesis_block(d, Now(<<>>))>>, "fresh", TRUE)

\* The program ends and is started again on the same chain file:
\* Blockchain(difficulty = d, chain_file).
Restart ==
    \E d \in Difficulties, outcome \in SaveOutcomes :
        LET made == construct(chain_file, d)
        IN  /\ difficulty' = d
            /\ chain' = made.chain
            /\ pending_transactions' = <<>>
            /\ chain_file' = IF made.saves THEN save_chain(chain', chain_file, outcome)
                             ELSE chain_file
            /\ ret' = Result("construct", TRUE, made.status, -1, NoInventory, NoArg)
            /\ pc' = "idle"

\* add_transaction arguments used between restarts.
LoadTxInputs == {MkTx("A", TRUE, "int", 2), MkTx("", TRUE, "numstr", 1)}

NextLoad ==
    \/ AddTransactionOf(LoadTxInputs)
    \/ MinePending
    \/ IsChainValid
    \/ GetInventory
    \/ Restart

SpecLoad == Init /\ [][NextLoad]_vars

\* ------------------------------- mine_pending_transactions, line by line
\* A handler that starts whatever another one is in the middle of.
HandlerMayRun_always(p) == TRUE

\* Every operation is started from a button callback, and main_window.mainloop()
\* runs one callback to its return before it takes the next event: a handler
\* starts only when no mine_pending_transactions() is under way.
HandlerMayRun(p) == p = "idle"

\* lines 99-101: nothing pending, return False.
MineNothing ==
    /\ HandlerMayRun(pc)
    /\ NothingToMine(pending_transactions)
    /\ ret' = Result("mine_pending", FALSE, "nothing_to_mine", -1, NoInventory, NoArg)
    /\ UNCHANGED <<chain, pending_transactions, difficulty, chain_file, pc>>

\* lines 103-114: build and seal the block, self.chain.append(new_block).
\* (The guard on Len(chain) caps the chain; a chain of accepted transactions
\* never reaches it.)
MineAppend ==
    /\ HandlerMayRun(pc)
    /\ ~NothingToMine(pending_transactions)
    /\ Len(chain) <= MaxTx
    /\ chain' = AppendBlock(chain,
                  new_block(chain, pending_transactions, difficulty, Now(chain)))
    /\ pc' = "appended"
    /\ UNCHANGED <<pending_transactions, difficulty, chain_file, ret>>

\* line 115: self.pending_transactions = []
MineClear ==
    /\ pc = "appended"
    /\ pending_transactions' = <<>>
    /\ pc' = "cleared"
    /\ UNCHANGED <<chain, difficulty, chain_file, ret>>

\* lines 116-117: save_chain(), return True.
MineSave ==
    /\ pc = "cleared"
    /\ \E outcome \in SaveOutcomes :
          /\ chain_file' = save_chain(chain, chain_file, outcome)
          /\ ret' = Result("mine_pending", TRUE,
                           IF outcome = "ok" THEN "mined" ELSE "save_error",
                           -1, NoInventory, NoArg)
    /\ pc' = "idle"
    /\ UNCHANGED <<chain, pending_transactions, difficulty>>

NextSteps ==
    \/ HandlerMayRun(pc) /\ AddTransactionOf(LoadTxInputs)
    \/ HandlerMayRun(pc) /\ IsChainValid
    \/ HandlerMayRun(pc) /\ GetInventory
    \/ MineNothing
    \/ MineAppend
    \/ MineClear
    \/ MineSave

SpecSteps == Init /\ [][NextSteps]_vars

\* ------------------------------------------------- Block.mine_block alone
\* mine_block(difficulty) takes any number of leading zeros; 0, 1 and 2 are
\* the ones the two modelled digits decide.
SealDifficulties == 0..MINING_DIFFICULTY

\* Block(index, timestamp, transactions, previous_hash, nonce) objects, as the
\* constructor leaves them: hash computed for the nonce given.
Candidates ==
    {Block(index, timestamp, transactions, previous_hash, nonce) :
        index \in {0, 1}, timestamp \in {1, 2},
        transactions \in {GenesisPayload, ListPayload(<<>>),
                          ListPayload(<<MkTx("A", TRUE, "int", 2)>>)},
        previous_hash \in {GenesisPrevHash,
                           calculate_hash(Block(0, 1, GenesisPayload, GenesisPrevHash, 0))},
        nonce \in 0..MaxStartNonce}

\* One block is constructed and held in chain[1]; no ledger around it.
InitSeal ==
    /\ chain \in {<<b>> : b \in Candidates}
    /\ difficulty \in SealDifficulties
    /\ pending_transactions = <<>>
    /\ chain_file = FileAbsent
    /\ ret = Result("construct_block", TRUE, "ok", -1, NoInventory, NoArg)
    /\ pc = "idle"

\* block.mine_block(d) on the block held.  ret.index keeps the nonce the
\* call started from.
SealBlock ==
    \E d \in SealDifficulties :
        /\ difficulty' = d
        /\ chain' = <<mine_block(chain[1], d)>>
        /\ ret' = Result("mine_block", TRUE, "sealed", chain[1].nonce, NoInventory, NoArg)
        /\ UNCHANGED <<pending_transactions, chain_file, pc>>

SpecSeal == InitSeal /\ [][SealBlock]_vars

\* ================================================================== claims

C4_Linkage ==
    /\ Len(chain) >= 1
    /\ chain[1].index = 0
    /\ chain[1].previous_hash = GenesisPrevHash
    /\ \A i \in 2..Len(chain) :
          /\ chain[i].previous_hash = chain[i - 1].hash
          /\ chain[i].index = chain[i - 1].index + 1

C4_Witness == Len(chain) >= 3 /\ get_latest_block(chain).index = Len(chain) - 1

\* C5: every step keeps the blocks already in the chain, unchanged and in
\* place; the chain grows by exactly one block in a successful
\* mine_pending_transactions() and by none in any other step.
C5_AppendOnly ==
    [][/\ Len(chain') >= Len(chain)
       /\ SubSeq(chain', 1, Len(chain)) = chain
       /\ Len(chain') = Len(chain) + (IF ret'.op = "mine_pending" /\ ret'.ok THEN 1 ELSE 0)
      ]_vars

C5_Witness ==
    /\ ret.op = "mine_pending" /\ ret.ok
    /\ Len(chain) >= 3
    /\ Len(chain[2].transactions.items) >= 2

\* ------------------------------------------------ what the ledger records
\* The sum of the changes of the transactions of txs that name item_id.
RECURSIVE SumChange(_, _)
SumChange(txs, item_id) ==
    IF txs = <<>> THEN 0
    ELSE SumChange(Tail(txs), item_id)
           + (IF Head(txs).item_id = item_id THEN IntOf(Head(txs)) ELSE 0)

ItemsOf(txs) == {txs[j].item_id : j \in 1..Len(txs)}

\* Chain c with the transactions of block i rearranged by permutation p.
Rearranged(c, i, p) ==
    [c EXCEPT ![i].transactions.items =
        [j \in 1..Len(c[i].transactions.items) |-> c[i].transactions.items[p[j]]]]

\* C6: on a valid chain get_inventory() returns a mapping whose keys are the
\* item ids sealed in blocks 1..N and whose values are the sums of their
\* changes; keys with a sum <= 0 stay, and rearranging the transactions inside
\* a block does not change the replayed mapping.
C6_ProjectionIsSum ==
    (ret.op = "get_inventory" /\ ret.ok) =>
        /\ ~ret.inv.none
        /\ DOMAIN ret.inv.map = ItemsOf(Sealed(chain))
        /\ \A k \in DOMAIN ret.inv.map : ret.inv.map[k] = SumChange(Sealed(chain), k)
        /\ \A i \in 2..Len(chain) :
              \A p \in Permutations(1..Len(chain[i].transactions.items)) :
                  Replay(Rearranged(chain, i, p)) = ret.inv.map

C6_Witness ==
    /\ ret.op = "get_inventory" /\ ret.ok
    /\ Cardinality(DOMAIN ret.inv.map) = 2
    /\ \E k \in DOMAIN ret.inv.map : ret.inv.map[k] <= 0
    /\ \E i \in 2..Len(chain) :
          /\ Len(chain[i].transactions.items) = 2
          /\ chain[i].transactions.items[1] # chain[i].transactions.items[2]

\* C7: get_inventory() returns the failure result exactly when
\* is_chain_valid() is False for the chain it is asked about, and otherwise
\* the replay of that whole chain.
C7_ProjectionGuarded ==
    ret.op = "get_inventory" =>
        /\ ret.inv.none <=> ~is_chain_valid(chain, difficulty)
        /\ ret.ok <=> ~ret.inv.none
        /\ ret.inv.none => ret.inv.map = EmptyMap
        /\ ~ret.inv.none => ret.inv.map = Replay(chain)

C7_Witness ==
    /\ ret.op = "get_inventory"
    /\ ret.inv.none
    /\ Sealed(chain) # <<>>

\* C8: removing more of an item than the ledger holds of it is refused with a
\* stock error, and chain, pending list, file and projection stay as they were.
C8_InsufficientStockRejected ==
    [][(/\ ret'.op = "remove_stock"
        /\ ret'.arg.has_item_id
        /\ ret'.arg.n < 0
        /\ -ret'.arg.n > SumChange(Sealed(chain), ret'.arg.item_id))
       => /\ ~ret'.ok
          /\ ret'.status = "stock_error"
          /\ UNCHANGED <<chain, pending_transactions, chain_file>>
          /\ get_inventory(chain', difficulty) = get_inventory(chain, difficulty)
      ]_vars

C8_Witness ==
    /\ ret.op = "remove_stock"
    /\ ret.status = "stock_error"
    /\ SumChange(Sealed(chain), ret.arg.item_id) > 0

\* C9: mine_pending_transactions() with nothing pending returns False and
\* leaves chain, pending list, file and projection as they were.
C9_EmptyMineIsNoOp ==
    [][(ret'.op = "mine_pending" /\ pending_transactions = <<>>)
       => /\ ~ret'.ok
          /\ ret'.status = "nothing_to_mine"
          /\ UNCHANGED <<chain, pending_transactions, chain_file>>
          /\ get_inventory(chain', difficulty) = get_inventory(chain, difficulty)
      ]_vars

C9_Witness ==
    /\ ret.op = "mine_pending" /\ ~ret.ok
    /\ Len(chain) >= 2
    /\ pending_transactions = <<>>

\* C10: add_transaction() accepts a transaction only if its item_id is a
\* non-empty string and its change converts to an integer; anything else is
\* refused.
C10_EnqueueValidates ==
    (ret.op = "add_transaction" /\ ret.ok) =>
        /\ ret.arg.has_item_id
        /\ ret.arg.item_id # ""
        /\ ret.arg.kind \in {"int", "numstr"}

\* C2: after one canonical field of any sealed block was changed, the
\* validator reports the chain invalid and names that block.
C2_TamperDetected ==
    ret.op = "tamper" =>
        LET report == ValidationReport(chain, difficulty)
        IN  /\ ~report.valid
            /\ report.index = chain[ret.index + 1].index

\* C11: construction takes over the persisted chain only when the file is
\* there and the chain passes validation; in every other case (no file, a
\* file that does not load, a chain that fails is_chain_valid) the chain is
\* exactly one fresh genesis block.  Pending is empty either way.
C11_LoadOnlyIfValid ==
    ret.op = "construct" =>
        /\ pending_transactions = <<>>
        /\ \/ chain = <<create_genesis_block(difficulty, Now(<<>>))>>
           \/ /\ chain_file = FileOf(chain)
              /\ is_chain_valid(chain, difficulty)

\* C12: saving and loading is a round trip.  When the file holds what
\* save_chain wrote for the chain in memory, constructing the engine again
\* loads a chain with the same blocks (same index, previous_hash, nonce, hash
\* and transactions at every position); under the same difficulty
\* is_chain_valid and get_inventory give what they gave before.  Transactions
\* still pending are not in the loaded state.
C12_RoundTrip ==
    [][(ret'.op = "construct" /\ chain_file = FileOf(chain)) =>
          /\ Len(chain') = Len(chain)
          /\ \A i \in 1..Len(chain) :
                /\ chain'[i].index = chain[i].index
                /\ chain'[i].previous_hash = chain[i].previous_hash
                /\ chain'[i].nonce = chain[i].nonce
                /\ chain'[i].hash = chain[i].hash
                /\ chain'[i].transactions = chain[i].transactions
          /\ pending_transactions' = <<>>
          /\ difficulty' = difficulty =>
                /\ is_chain_valid(chain', difficulty') = is_chain_valid(chain, difficulty)
                /\ get_inventory(chain', difficulty') = get_inventory(chain, difficulty)
      ]_vars

\* A chain of three blocks, one of them sealed at a nonce above 0, was loaded
\* from the file that save_chain wrote.
C12_Witness ==
    /\ ret.op = "construct"
    /\ ret.status = "loaded"
    /\ chain_file = FileOf(chain)
    /\ Len(chain) >= 3
    /\ \E i \in 1..Len(chain) : chain[i].nonce > 0

\* C13: appending the block and clearing the pending list is one transition
\* for every other operation.  While mine_pending_transactions() stands
\* between its append and its return, the only step taken is its own next
\* line: the chain stays as appended, the pending list is cleared next, and no
\* other operation returns a result from such a state.  The pending list is
\* never found cleared before the block is on the chain.
C13_AppendClearAtomic ==
    [][/\ pc = "appended" =>
            /\ pc' = "cleared"
            /\ chain' = chain
            /\ pending_transactions' = <<>>
            /\ ret' = ret
       /\ pc = "cleared" =>
            /\ pc' = "idle"
            /\ chain' = chain
            /\ pending_transactions' = <<>>
            /\ ret'.op = "mine_pending"
       /\ pc' = "cleared" =>
            get_latest_block(chain').transactions.items = pending_transactions
      ]_vars

\* mine_pending_transactions() has appended its second block and has not yet
\* cleared the pending list.
C13_Witness ==
    /\ pc = "appended"
    /\ Len(chain) >= 3
    /\ get_latest_block(chain).transactions.items = pending_transactions

\* C14: with difficulty 0 the target prefix is empty, the sealing loop runs
\* no pass, and every block of the chain, the genesis block included, has
\* nonce 0 (and the hash Block.__init__ computed for nonce 0).
C14_DifficultyZeroNonceZero ==
    difficulty = 0 =>
        \A i \in 1..Len(chain) :
            /\ chain[i].nonce = 0
            /\ chain[i].hash = calculate_hash([chain[i] EXCEPT !.nonce = 0])

\* At difficulty 0 two blocks were mined, one of them with a hash that does
\* not start with '0'.
C14_Witness ==
    /\ difficulty = 0
    /\ Len(chain) >= 3
    /\ ret.op = "mine_pending"
    /\ \E i \in 2..Len(chain) : ~StartsWithZeros(chain[i].hash, 1)

\* The transactions of all mined blocks in chain order, then the pending ones.
LedgerOf(c, pend) == Sealed(c) \o pend

\* C15: batching is exactly-once.  A successful mine_pending_transactions()
\* appends one block whose index is the latest index + 1, whose previous_hash
\* is the latest hash and whose transactions are the pending list in its
\* order, and leaves the pending list empty.  Every accepted add_transaction
\* puts its transaction at the end of "block batches followed by pending",
\* and no other step changes that sequence: it is the accepted transactions
\* in submission order, none lost, duplicated or moved.
C15_ExactlyOnceBatching ==
    [][/\ (ret'.op = "mine_pending" /\ ret'.ok) =>
            LET latest_block == get_latest_block(chain)
                sealed == get_latest_block(chain')
            IN  /\ Len(chain') = Len(chain) + 1
                /\ SubSeq(chain', 1, Len(chain)) = chain
                /\ sealed.index = latest_block.index + 1
                /\ sealed.previous_hash = latest_block.hash
                /\ sealed.transactions.items = pending_transactions
                /\ pending_transactions # <<>>
                /\ pending_transactions' = <<>>
       /\ LedgerOf(chain', pending_transactions') =
            IF ret'.op = "add_transaction" /\ ret'.ok
              THEN Append(LedgerOf(chain, pending_transactions), ret'.arg)
              ELSE LedgerOf(chain, pending_transactions)
      ]_vars

\* A second block was just mined from a pending list of two different
\* transactions.
C15_Witness ==
    /\ ret.op = "mine_pending"
    /\ ret.ok
    /\ Len(chain) >= 3
    /\ pending_transactions = <<>>
    /\ LET items == get_latest_block(chain).transactions.items
       IN  Len(items) = 2 /\ items[1] # items[2]

\* C16: sealing changes nothing of a block but nonce and hash.  The search
\* starts at the nonce the block has, goes up by one, and stops at the
\* smallest nonce not below the start whose digest starts with `difficulty`
\* zeros; on return the stored hash is the digest of the block as it then
\* stands.  Such a nonce exists for every block here, and the call returns
\* with it found.
C16_SealFindsLeastNonce ==
    [][ret'.op = "mine_block" =>
          LET b == chain[1]
              s == chain'[1]
          IN  /\ s.index = b.index
              /\ s.timestamp = b.timestamp
              /\ s.transactions = b.transactions
              /\ s.previous_hash = b.previous_hash
              /\ s.nonce >= b.nonce
              /\ ret'.index = b.nonce
              /\ StartsWithZeros(s.hash, difficulty')
              /\ s.hash = calculate_hash(s)
              /\ \A n \in b.nonce..(s.nonce - 1) :
                    ~StartsWithZeros(calculate_hash([b EXCEPT !.nonce = n]), difficulty')
      ]_vars

\* A search for two leading zeros that started above nonce 0 and took more
\* than one pass.
C16_Witness ==
    /\ ret.op = "mine_block"
    /\ difficulty = MINING_DIFFICULTY
    /\ ret.index >= 1
    /\ chain[1].nonce > ret.index + 1
    /\ StartsWithZeros(chain[1].hash, MINING_DIFFICULTY)

\* C17: when save_chain fails inside mine_pending_transactions(), the error
\* is shown and the chain in memory stands: the call still returns True, the
\* new block is on the chain with the pending transactions in it, the pending
\* list is empty and is_chain_valid() holds.  Operations after it work on the
\* chain in memory: a projection taken while the file lags behind counts the
\* blocks that were not saved.
C17_SaveFailureKeepsMemory ==
    [][/\ (ret'.op = "mine_pending" /\ ret'.status = "save_error") =>
            /\ ret'.ok
            /\ Len(chain') = Len(chain) + 1
            /\ SubSeq(chain', 1, Len(chain)) = chain
            /\ get_latest_block(chain').transactions.items = pending_transactions
            /\ pending_transactions' = <<>>
            /\ is_chain_valid(chain', difficulty')
            /\ chain_file' # FileOf(chain')
       /\ (ret'.op = "get_inventory" /\ chain_file # FileOf(chain)) =>
            /\ ret'.ok
            /\ \A item_id \in ItemsOf(Sealed(chain)) :
                  ret'.inv.map[item_id] = SumChange(Sealed(chain), item_id)
      ]_vars

\* Two blocks were mined and every save so far failed at open(): the file
\* still does not exist.
C17_Witness ==
    /\ ret.op = "mine_pending"
    /\ ret.status = "save_error"
    /\ ret.ok
    /\ Len(chain) >= 3
    /\ chain_file = FileAbsent

\* C18: driven through add_stock / remove_stock only, from a genesis-only
\* chain, the projection is available and no item's projected quantity is
\* below 0, in every reachable state.
C18_StockNeverNegative ==
    LET inventory == get_inventory(chain, difficulty)
    IN  /\ ~inventory.none
        /\ \A item_id \in DOMAIN inventory.map : inventory.map[item_id] >= 0
        /\ \A item_id \in ItemsOf(Sealed(chain)) : SumChange(Sealed(chain), item_id) >= 0

\* A removal was accepted that took an item's stock down to exactly 0.
C18_Witness ==
    /\ ret.op = "remove_stock"
    /\ ret.ok
    /\ ret.arg.n < 0
    /\ StockOf(Replay(chain), ret.arg.item_id) = 0

\* C19: the handlers mine at once.  Between operations the pending list is
\* empty; a submission that succeeds appends exactly one block, holding
\* exactly that one transaction; one that is rejected (and a refresh) appends
\* none; so every mined block holds one transaction and the chain is one
\* block longer than the number of successful submissions.
C19_MineImmediately ==
    [][/\ pending_transactions = <<>>
       /\ pending_transactions' = <<>>
       /\ IF ret'.op \in {"add_stock", "remove_stock"} /\ ret'.ok
            THEN /\ Len(chain') = Len(chain) + 1
                 /\ SubSeq(chain', 1, Len(chain)) = chain
                 /\ get_latest_block(chain').transactions.items = <<ret'.arg>>
            ELSE chain' = chain
       /\ \A i \in 2..Len(chain') : Len(chain'[i].transactions.items) = 1
       /\ Len(chain') = 1 + Len(Sealed(chain'))
      ]_vars

\* A rejected submission after two successful ones: two mined blocks, the
\* stock error left the chain at three blocks.
C19_Witness ==
    /\ ret.op = "remove_stock"
    /\ ~ret.ok
    /\ ret.status = "stock_error"
    /\ Len(chain) = 3
    /\ pending_transactions = <<>>

\* C20: add_transaction, is_chain_valid and get_inventory never change the
\* chain or the file (a chain found invalid is not repaired); is_chain_valid
\* and get_inventory change nothing at all; add_transaction changes the
\* pending list only, and the accepted transaction does not show in the
\* projection (or the verdict on the chain) until it is mined.
C20_ReadsAndEnqueueLeaveChain ==
    [][ret'.op \in {"add_transaction", "is_chain_valid", "get_inventory"} =>
          /\ chain' = chain
          /\ chain_file' = chain_file
          /\ difficulty' = difficulty
          /\ pending_transactions' =
                IF ret'.op = "add_transaction" /\ ret'.ok
                  THEN Append(pending_transactions, ret'.arg)
                  ELSE pending_transactions
          /\ get_inventory(chain', difficulty') = get_inventory(chain, difficulty)
          /\ is_chain_valid(chain', difficulty') = is_chain_valid(chain, difficulty)
      ]_vars

\* A projection taken with a transaction pending on top of a mined block: it
\* shows the mined quantity only.
C20_Witness ==
    /\ ret.op = "get_inventory"
    /\ ret.ok
    /\ Len(chain) >= 2
    /\ pending_transactions # <<>>
    /\ \A item_id \in ItemsOf(Sealed(chain)) :
          ret.inv.map[item_id] = SumChange(Sealed(chain), item_id)
    /\ \E item_id \in ItemsOf(pending_transactions) :
          SumChange(LedgerOf(chain, pending_transactions), item_id) # StockOf(ret.inv.map, item_id)

====
